---------------------------- MODULE Spec2Model ----------------------------
(***************************************************************************)
(* Transcriptor-multimedia: the audio splitter (processAndSplitAudio and   *)
(* audioBufferToWav, src/audioSplitter.ts lines 104-245) and the App       *)
(* handlers that drive it (src/App.tsx).                                   *)
(*                                                                         *)
(* Numbers.  A JavaScript Number is an IEEE-754 binary64.  The model keeps *)
(* every quantity as an exact integer or an exact rational and states, at  *)
(* the two places where binary64 rounds ( decodedBuffer.duration =         *)
(* length / sampleRate  and  endTime * sampleRate ), what the rounding     *)
(* does to the result (durationTimesRateFloor).  A chunk duration is kept  *)
(* as a whole number of 1/DurDen seconds; such values, their multiples and *)
(* their products with a sample rate are exact in binary64 within the      *)
(* ranges used here.                                                       *)
(***************************************************************************)
EXTENDS Integers, Sequences, FiniteSets, TLC

(***************************************************************************)
(* Arithmetic helpers                                                      *)
(***************************************************************************)
RECURSIVE Pow2(_)
Pow2(n) == IF n <= 0 THEN 1 ELSE 2 * Pow2(n - 1)

Min(a, b) == IF a <= b THEN a ELSE b

Max(a, b) == IF a >= b THEN a ELSE b

\* Math.floor(a / b) for b > 0 and any integer a
FloorDiv(a, b) == IF a >= 0 THEN a \div b ELSE -((-a + b - 1) \div b)

\* Math.ceil(a / b) for b > 0 and any integer a
CeilDiv(a, b) == -FloorDiv(-a, b)

\* the e with 2^e <= n < 2^(e+1), n >= 1
RECURSIVE FloorLog2(_)
FloorLog2(n) == IF n < 2 THEN 0 ELSE 1 + FloorLog2(n \div 2)

\* the e with 2^e <= a/b < 2^(e+1), a >= 1, b >= 1 (e may be negative)
RECURSIVE BinaryExponent(_, _)
BinaryExponent(a, b) ==
    IF a >= 2 * b THEN 1 + BinaryExponent(a, 2 * b)
    ELSE IF a < b THEN BinaryExponent(2 * a, b) - 1
    ELSE 0

\* (x * 2^k) % m for 0 <= x < m <= 2^15, fifteen doublings at a time
RECURSIVE ShiftMod(_, _, _)
ShiftMod(x, k, m) ==
    IF k <= 15 THEN (x * Pow2(k)) % m
    ELSE ShiftMod((x * Pow2(15)) % m, k - 15, m)

(***************************************************************************)
(* binary64: a Number has a 53-bit significand, rounded to nearest, ties   *)
(* to even.                                                                *)
(***************************************************************************)
MantissaBits == 53

(***************************************************************************)
(* Math.floor(totalDuration * sampleRate) where totalDuration is           *)
(* decodedBuffer.duration, the binary64 quotient length / sampleRate.      *)
(*   q = fl(L / r) = m / 2^k with 2^52 <= m < 2^53, and                    *)
(*   L * 2^k = m0 * r + rem, so q * r = L - rem / 2^k when q was rounded   *)
(*   down (m = m0) and L + (r - rem) / 2^k when it was rounded up.         *)
(* The product is rounded again: above L it floors to L; below L it stays  *)
(* below L, and floors to L - 1, exactly when rem / 2^k exceeds half the   *)
(* distance from L to the binary64 just below it, which is 2^(eL - 52), or *)
(* 2^(eL - 53) when L is a power of two (eL = FloorLog2(L)).  A tie rounds *)
(* to L, whose significand is even.                                        *)
(***************************************************************************)
durationTimesRateFloor(L, r) ==
    IF L = 0 THEN 0
    ELSE LET e     == BinaryExponent(L, r)
             k     == (MantissaBits - 1) - e
             rem   == ShiftMod(L % r, k, r)
             prev  == ShiftMod(L % r, k - 1, r)
             odd   == ((2 * prev) \div r) % 2 = 1
             up    == 2 * rem > r \/ (2 * rem = r /\ odd)
             eL    == FloorLog2(L)
             x     == k + eL - MantissaBits - (IF Pow2(eL) = L THEN 1 ELSE 0)
             below == IF x >= 0 THEN rem > Pow2(x) ELSE rem * Pow2(-x) > 1
         IN  IF rem = 0 \/ up THEN L
             ELSE IF below THEN L - 1 ELSE L

(***************************************************************************)
(* Numbers that may be Infinity or NaN (totalChunks, src/audioSplitter.ts  *)
(* line 197: Math.ceil(totalDuration / chunkDurationInSeconds)).           *)
(***************************************************************************)
Finite(n) == [kind |-> "finite", n |-> n]

Infinity == [kind |-> "Infinity", n |-> 0]

NaN == [kind |-> "NaN", n |-> 0]

\* i < x for an integer i and a Number x: false against NaN
LessThan(i, x) ==
    CASE x.kind = "finite"   -> i < x.n
      [] x.kind = "Infinity" -> TRUE
      [] OTHER               -> FALSE

(***************************************************************************)
(* chunkDurationInSeconds is kept as dn, the number of 1/DurDen seconds.   *)
(***************************************************************************)
DurDen == 2

\* a variant that always plans one window or more
totalChunksOf_AtLeastOne(L, r, dn) ==
    IF dn = 0 THEN (IF L = 0 THEN NaN ELSE Infinity)
    ELSE IF dn > 0 THEN Finite(Max(1, CeilDiv(L * DurDen, r * dn)))
    ELSE Finite(-FloorDiv(L * DurDen, r * (-dn)))

(***************************************************************************)
(* totalChunks = Math.ceil(totalDuration / chunkDurationInSeconds), with   *)
(* totalDuration = L / r : x / 0 is Infinity for x > 0 and 0 / 0 is NaN.   *)
(***************************************************************************)
totalChunksOf(L, r, dn) ==
    IF dn = 0 THEN (IF L = 0 THEN NaN ELSE Infinity)
    ELSE IF dn > 0 THEN Finite(CeilDiv(L * DurDen, r * dn))
    ELSE Finite(-FloorDiv(L * DurDen, r * (-dn)))

(***************************************************************************)
(* One pass of the loop body's arithmetic for window index i               *)
(* (src/audioSplitter.ts lines 207-216).  Times are in 1/DurDen seconds.   *)
(***************************************************************************)
\* endTime = Math.min(startTime + chunkDurationInSeconds, totalDuration):
\* TRUE when the minimum is startTime + chunkDurationInSeconds
endIsWindowEnd(i, L, r, dn) == (i + 1) * dn * r <= L * DurDen

\* if (endTime <= startTime) continue;
endNotAfterStart(i, L, r, dn) ==
    IF endIsWindowEnd(i, L, r, dn) THEN dn <= 0
    ELSE L * DurDen <= i * dn * r

\* startOffset = Math.floor(startTime * sampleRate)
startOffsetOf(i, r, dn) == FloorDiv(i * dn * r, DurDen)

\* endOffset = Math.floor(endTime * sampleRate)
endOffsetOf(i, L, r, dn) ==
    IF endIsWindowEnd(i, L, r, dn) THEN FloorDiv((i + 1) * dn * r, DurDen)
    ELSE durationTimesRateFloor(L, r)

frameCountOf(i, L, r, dn) == endOffsetOf(i, L, r, dn) - startOffsetOf(i, r, dn)

\* the window is skipped by one of the two "continue" statements
skipped(i, L, r, dn) ==
    endNotAfterStart(i, L, r, dn) \/ frameCountOf(i, L, r, dn) <= 0

(***************************************************************************)
(* Strings are sequences of one-character strings.                         *)
(***************************************************************************)
\* str.lastIndexOf(ch): the 0-based index of the last ch, or -1
lastIndexOf(str, ch) ==
    LET at == {j \in 1..Len(str) : str[j] = ch}
    IN  IF at = {} THEN -1 ELSE (CHOOSE j \in at : \A h \in at : h <= j) - 1

\* str.substring(0, end): a negative end counts as 0
substring0(str, end) == SubSeq(str, 1, Min(Max(end, 0), Len(str)))

DigitChar(d) == <<"0", "1", "2", "3", "4", "5", "6", "7", "8", "9">>[d + 1]

\* String(n) for an integer n >= 0
RECURSIVE StringOfNat(_)
StringOfNat(n) ==
    IF n < 10 THEN <<DigitChar(n)>>
    ELSE Append(StringOfNat(n \div 10), DigitChar(n % 10))

\* str.padStart(width, ch): ch is put in front until the length is width
RECURSIVE padStart(_, _, _)
padStart(str, width, ch) ==
    IF Len(str) >= width THEN str ELSE padStart(<<ch>> \o str, width, ch)

\* file.name.substring(0, file.name.lastIndexOf('.')) || file.name
originalFileNameOf(name) ==
    LET cut == substring0(name, lastIndexOf(name, "."))
    IN  IF cut = <<>> THEN name ELSE cut

\* a variant that pads the chunk number to three digits
chunkNameOf_ThreeDigits(name, chunkNumber) ==
    originalFileNameOf(name)
        \o <<"_", "p", "a", "r", "t", "e", "_">>
        \o padStart(StringOfNat(chunkNumber), 3, "0")
        \o <<".", "w", "a", "v">>

\* `${originalFileName}_parte_${String(chunkNumber).padStart(2, '0')}.wav`
chunkNameOf(name, chunkNumber) ==
    originalFileNameOf(name)
        \o <<"_", "p", "a", "r", "t", "e", "_">>
        \o padStart(StringOfNat(chunkNumber), 2, "0")
        \o <<".", "w", "a", "v">>

(***************************************************************************)
(* audioBufferToWav (src/audioSplitter.ts lines 112-170).                  *)
(*                                                                         *)
(* An AudioBuffer is [numberOfChannels, length, sampleRate, channelData],  *)
(* channelData[c + 1] the sequence of the samples of channel c             *)
(* (getChannelData(c), c = 0 .. numberOfChannels - 1).  A Float32 sample   *)
(* is kept as sn, the number of 1/SampleDen it holds (sn = SampleDen is    *)
(* 1.0).  The ArrayBuffer is the sequence of its bytes: the byte at offset  *)
(* o is bytes[o + 1].  Sequences built element by element are written      *)
(* [j \in 1..n |-> e] \o <<>>, which is the same sequence.                 *)
(***************************************************************************)
SampleDen == 4

format == 1

bitDepth == 16

headerSize == 44

charCodeAt(ch) ==
    CASE ch = "R" -> 82  [] ch = "I" -> 73  [] ch = "F" -> 70
      [] ch = "W" -> 87  [] ch = "A" -> 65  [] ch = "V" -> 86
      [] ch = "E" -> 69  [] ch = "f" -> 102 [] ch = "m" -> 109
      [] ch = "t" -> 116 [] ch = " " -> 32  [] ch = "d" -> 100
      [] ch = "a" -> 97

\* A write into the DataView: `bytes` stored from byte `offset` on
Write(offset, bytes) == [offset |-> offset, bytes |-> bytes]

\* writeString(offset, str): view.setUint8(offset + i, str.charCodeAt(i))
writeString(offset, str) ==
    Write(offset, [j \in 1..Len(str) |-> charCodeAt(str[j])] \o <<>>)

\* a variant that stores the most significant byte first
setUint32_BigEndian(offset, value) ==
    Write(offset,
        << (value \div 16777216) % 256, (value \div 65536) % 256,
           (value \div 256) % 256, value % 256 >>)

\* view.setUint32(offset, value, true): little-endian, value < 2^31 here
setUint32(offset, value) ==
    Write(offset,
        << value % 256, (value \div 256) % 256,
           (value \div 65536) % 256, (value \div 16777216) % 256 >>)

\* view.setUint16(offset, value, true): value modulo 2^16, little-endian
setUint16(offset, value) ==
    Write(offset, << (value % 65536) % 256, (value % 65536) \div 256 >>)

\* ToInt16 of the Number num / den: the fraction is dropped (towards zero),
\* the integer taken modulo 2^16; the result is the 16-bit pattern, 0..65535
ToInt16Bits(num, den) ==
    LET int == IF num >= 0 THEN num \div den ELSE -((-num) \div den)
    IN  int % 65536

\* view.setInt16(offset, num / den, true)
setInt16(offset, num, den) ==
    LET bits == ToInt16Bits(num, den)
    IN  Write(offset, << bits % 256, bits \div 256 >>)

\* the bytes of an ArrayBuffer of `size` bytes (all 0 when allocated, line
\* 126) after the writes of `writes`, made in that order through its
\* DataView: a byte holds what the last write that covers it stored (ws is
\* writes)
bytesAfter(size, writes) ==
    CHOOSE bytes \in
        { [j \in 1..size |->
             LET hits == {k \in 1..Len(ws) :
                            /\ ws[k].offset < j
                            /\ j <= ws[k].offset + Len(ws[k].bytes)}
                 last == CHOOSE k \in hits : \A h \in hits : h <= k
             IN  IF hits = {} THEN 0
                 ELSE ws[last].bytes[j - ws[last].offset]] \o <<>>
          : ws \in {writes} } : TRUE

\* a variant that leaves the sample as it is
clampedSampleOf_Unclamped(sn) == sn

\* Math.max(-1, Math.min(1, sample))
clampedSampleOf(sn) == Max(-SampleDen, Min(SampleDen, sn))

\* clampedSample < 0 ? clampedSample * 0x8000 : clampedSample * 0x7FFF,
\* as the numerator of a fraction over SampleDen
intSampleNum(sn) ==
    LET clampedSample == clampedSampleOf(sn)
    IN  IF clampedSample < 0 THEN clampedSample * 32768
        ELSE clampedSample * 32767

\* a variant whose outer loop is over the channels and inner over the frames
pcmPass_ChannelMajor(buffer, n) ==
    [i       |-> n % buffer.length,
     channel |-> n \div buffer.length,
     offset  |-> 44 + 2 * n]

\* pass n (n = 0, 1, ...) of the nested loops of lines 157-167: the outer
\* loop is over the frames i, the inner over the channels, and offset, 44
\* before the first pass, grows by 2 in every pass
pcmPass(buffer, n) ==
    [i       |-> n \div buffer.numberOfChannels,
     channel |-> n % buffer.numberOfChannels,
     offset  |-> 44 + 2 * n]

\* the setInt16 writes of the passes, in order
writePCM(buffer) ==
    [n \in 1..(buffer.length * buffer.numberOfChannels) |->
        LET pass   == pcmPass(buffer, n - 1)
            sample == buffer.channelData[pass.channel + 1][pass.i + 1]
        IN  setInt16(pass.offset, intSampleNum(sample), SampleDen)] \o <<>>

audioBufferToWav(buffer) ==
    LET numChannels == buffer.numberOfChannels
        sampleRate  == buffer.sampleRate
        numSamples  == buffer.length
        dataSize    == numSamples * numChannels * (bitDepth \div 8)
        blockAlign  == numChannels * (bitDepth \div 8)
        byteRate    == sampleRate * blockAlign
        bufferSize  == headerSize + dataSize
        header ==
            << writeString(0, <<"R", "I", "F", "F">>),
               setUint32(4, 36 + dataSize),
               writeString(8, <<"W", "A", "V", "E">>),
               writeString(12, <<"f", "m", "t", " ">>),
               setUint32(16, 16),
               setUint16(20, format),
               setUint16(22, numChannels),
               setUint32(24, sampleRate),
               setUint32(28, byteRate),
               setUint16(32, blockAlign),
               setUint16(34, bitDepth),
               writeString(36, <<"d", "a", "t", "a">>),
               setUint32(40, dataSize) >>
    IN  [type  |-> "audio/wav",
         bytes |-> bytesAfter(bufferSize, header \o writePCM(buffer))]

(***************************************************************************)
(* Files, decoded audio, messages                                          *)
(*                                                                         *)
(* A file is its name and what the platform decoder makes of it: the       *)
(* sample rate, channel count and frame count of the decoded AudioBuffer.  *)
(***************************************************************************)
File(name, sampleRate, numberOfChannels, length) ==
    [name |-> name, sampleRate |-> sampleRate,
     numberOfChannels |-> numberOfChannels, length |-> length]

\* splitterFile === null
NoFile == File(<<>>, 0, 0, 0)

\* the sample of channel c at frame f (0-based) of a decoded file: a test
\* signal that takes every value from -1.5 to 1.5 in steps of 1/SampleDen
SampleAt(c, f) == ((5 * f + 3 * c) % 13) - 6

\* the AudioBuffer audioContext.decodeAudioData resolves with
decodedBufferOf(file) ==
    [numberOfChannels |-> file.numberOfChannels,
     length           |-> file.length,
     sampleRate       |-> file.sampleRate,
     channelData      |->
        [c \in 1..file.numberOfChannels |->
            [f \in 1..file.length |-> SampleAt(c - 1, f - 1)] \o <<>>]
        \o <<>>]

NoBuffer ==
    [numberOfChannels |-> 0, length |-> 0, sampleRate |-> 0,
     channelData |-> <<>>]

NoBlob == [type |-> "none", bytes |-> <<>>]

\* audioContext.createBuffer(numberOfChannels, frameCount, sampleRate)
createBuffer(numberOfChannels, frameCount, sampleRate) ==
    [numberOfChannels |-> numberOfChannels,
     length           |-> frameCount,
     sampleRate       |-> sampleRate,
     channelData      |->
        [c \in 1..numberOfChannels |-> [f \in 1..frameCount |-> 0] \o <<>>]
        \o <<>>]

\* a variant that takes the view from the start of the data
subarray_FromStart(data, begin, end) ==
    SubSeq(data, 1, Min(end, Len(data)) - begin)

\* typedArray.subarray(begin, end): end is clamped to the length
subarray(data, begin, end) == SubSeq(data, begin + 1, Min(end, Len(data)))

\* target.set(source): source is stored from index 0 on
typedArraySet(target, source) ==
    [f \in 1..Len(target) |->
        IF f <= Len(source) THEN source[f] ELSE target[f]] \o <<>>

\* the chunk buffer after the per-channel copy loop (lines 219-230)
copiedChunkBuffer(decodedBuffer, startOffset, endOffset) ==
    LET chunkBuffer == createBuffer(decodedBuffer.numberOfChannels,
                                    endOffset - startOffset,
                                    decodedBuffer.sampleRate)
    IN  [numberOfChannels |-> chunkBuffer.numberOfChannels,
         length           |-> chunkBuffer.length,
         sampleRate       |-> chunkBuffer.sampleRate,
         channelData      |->
            [c \in 1..chunkBuffer.numberOfChannels |->
                typedArraySet(chunkBuffer.channelData[c],
                    subarray(decodedBuffer.channelData[c],
                             startOffset, endOffset))] \o <<>>]

\* a progress message; chunkNumber and totalChunks are the two numbers of
\* `Procesando trozo ${chunkNumber} de ${totalChunks}...`
Message(text, chunkNumber, totalChunks) ==
    [text |-> text, chunkNumber |-> chunkNumber, totalChunks |-> totalChunks]

NoMessage == Message("null", 0, Finite(0))

StartingMessage == Message("Iniciando division...", 0, Finite(0))

DecodingMessage == Message("Decodificando el archivo...", 0, Finite(0))

\* a variant that numbers the chunks from 0
chunkMessage_FromZero(i, totalChunks) == Message("Procesando trozo", i, totalChunks)

\* lines 200-201: chunkNumber = i + 1
chunkMessage(i, totalChunks) == Message("Procesando trozo", i + 1, totalChunks)

SplitErrorText == "No se pudo procesar el archivo."

(***************************************************************************)
(* Bounds of the model                                                     *)
(***************************************************************************)
\* handleSplit invocations that may exist (running or finished) in one run
\* of the App
MaxRuns == 2

\* with totalChunks = Infinity the loop never ends: window indices from
\* MaxIter on are kept by their parity only (MaxIter, MaxIter + 1, MaxIter,
\* ... : every such pass does the same), and the logs record the passes
\* below MaxIter only
MaxIter == 3

\* decoded lengths 0 .. MaxFrames, and one long recording of LongFrames
MaxFrames == 15

LongFrames == 101

MaxChannels == 2

\* frames of the buffers handed to audioBufferToWav on its own
MaxWavFrames == 4

\* the calls of audioBufferToWav made one after another
MaxWavCalls == 3

\* the kinds of file that are split: a name and the sample rate of what
\* is decoded from it
InputKinds ==
    { [name |-> <<"a", ".", "m", "p", "3">>, sampleRate |-> 1],
      [name |-> <<"r", "e", "c">>,           sampleRate |-> 2],
      [name |-> <<".", "b", ".", "c">>,      sampleRate |-> 11] }

\* chunk durations in 1/DurDen seconds: -1 s, 0 (Number('')), 0.5 s, 1 s,
\* 1.5 s, 2 s and the default 180 s
InputDurations == {-2, 0, 1, 2, 3, 4, 360}

LongFile == File(<<"l", "o", "n", "g", ".", "o", "g", "g">>, 1, 1, LongFrames)

InputFiles ==
    { File(k.name, k.sampleRate, 1 + (k.sampleRate % MaxChannels), L) :
        k \in InputKinds, L \in 0..MaxFrames }
        \cup {LongFile}

\* what the user of the App picks from when splits may overlap
AppFiles == { File(<<"a", ".", "m", "p", "3">>, 1, 1, 2),
              File(<<"r", "e", "c">>, 2, 2, 3) }

AppDurations == {0, 2}

WavRates == {1, 8000, 44100}

\* the buffers given to audioBufferToWav on its own: the test signal of
\* SampleAt from each of its 13 phases
WavBuffers ==
    { [numberOfChannels |-> c, length |-> L, sampleRate |-> r,
       channelData |->
          [ch \in 1..c |->
              [f \in 1..L |-> SampleAt(ch - 1, f - 1 + k)] \o <<>>] \o <<>>] :
        c \in 1..MaxChannels, L \in 0..MaxWavFrames, r \in WavRates,
        k \in 0..12 }

\* the sizes in bytes of the files given to splitAudioFile
MaxBytes == 6

\* the passes of the while loop of splitAudioFile that are told apart when
\* the loop does not end
MaxPasses == 3

\* the files given to splitAudioFile and the chunk sizes asked for
ByteFiles ==
    { [name |-> "big.mp3", size |-> S, type |-> "audio/mpeg"] :
        S \in 0..MaxBytes }

ChunkSizes == (-2)..(MaxBytes + 1)

\* the invocations of handleTranscription
MaxJobs == 2

\* the files selected for a transcription
MaxFiles == 3

\* the files given to the transcriber: file k is named fk; every third one
\* has no type (file.type is '' when the browser does not know it)
MediaFile(k) ==
    [name |-> <<"f", DigitChar(k % 10)>>,
     type |-> IF k % 3 = 2 THEN "" ELSE "audio/mpeg"]

\* the lists of files the user can have selected: files of different names
FileLists ==
    { list \in UNION { [1..n -> 1..MaxFiles] : n \in 0..MaxFiles } :
        \A a, b \in DOMAIN list : a # b => list[a] # list[b] }

\* the batches of files the user adds while transcriptions come and go: a
\* file that can be transcribed, alone or followed by one without a type
AppBatches ==
    { <<MediaFile(1)>>, <<MediaFile(1), MediaFile(2)>> }

\* the File objects the user can pick, and the files of one handleFilesAdd
MaxPicked == 5

MaxBatch == 2

\* File object k: there are three names, and the objects whose k differ by
\* three share one (files of the same name from different folders)
PickedFile(k) ==
    [id |-> k, name |-> <<"f", DigitChar(k % 3)>>, type |-> "audio/mpeg"]

\* the arrays FileInput can give to onFilesAdd: one File object or more
PickedBatches ==
    { [k \in DOMAIN ids |-> PickedFile(ids[k])] \o <<>> :
        ids \in { b \in UNION { [1..n -> 1..MaxPicked] : n \in 1..MaxBatch } :
                    \A a, c \in DOMAIN b : a # c => b[a] # b[c] } }

\* another buffer, for the calls made between two calls of the same buffer
WavOther ==
    [numberOfChannels |-> 1, length |-> 2, sampleRate |-> 8000,
     channelData |-> << <<SampleAt(0, 1), SampleAt(0, 0)>> >>]

(***************************************************************************)
(* State                                                                   *)
(***************************************************************************)
VARIABLES
    activeTool,         \* App.tsx line 15
    selectedFiles,      \* line 19
    status,             \* line 20
    transcription,      \* line 21
    error,              \* line 22
    processingMessage,  \* line 23
    splitterFile,       \* line 26
    splitChunks,        \* line 27
    isSplitting,        \* line 28
    splittingMessage,   \* line 29
    isZipping,          \* line 30
    splitterError,      \* line 31
    chunkDuration,      \* line 32, in 1/DurDen seconds
    calls,              \* the invocations of handleSplit, each with the
                        \* processAndSplitAudio call it awaits
    wavBuffer,          \* a buffer given to audioBufferToWav on its own
    wavBlob,            \* and the blob returned for it
    wavCalls,           \* the calls of audioBufferToWav made so far: the
                        \* buffer given and the blob returned, in order
    splitCall,          \* a call of splitAudioFile: its parameters, its
                        \* locals and where it is
    jobs,               \* the invocations of handleTranscription, each
                        \* with the transcribeAudio call it awaits
    API_KEY             \* process.env.API_KEY is set

transcriberVars ==
    <<selectedFiles, status, transcription, error, processingMessage>>

splitterVars ==
    <<splitterFile, splitChunks, isSplitting, splittingMessage, isZipping,
      splitterError, chunkDuration>>

wavVars == <<wavBuffer, wavBlob, wavCalls>>

\* the state of the functions that are called on their own
pureVars == <<wavVars, splitCall>>

jobVars == <<jobs, API_KEY>>

vars == <<activeTool, transcriberVars, splitterVars, calls, pureVars, jobVars>>

(***************************************************************************)
(* One invocation of handleSplit and of the processAndSplitAudio it        *)
(* awaits.  pc is the await the invocation is suspended at:                *)
(*   "arrayBuffer"     line 188     "decodeAudioData"  line 190            *)
(*   "setTimeout"      line 205     "close"            line 243            *)
(* or "resolved" / "rejected" once the promise has settled and handleSplit *)
(* has run its continuation (App.tsx lines 139-146).  progress, events and *)
(* windows are logs of what the invocation did, in the order it did it:    *)
(* the messages given to onProgress, the steps taken, the frame ranges     *)
(* copied with the chunk buffer each was copied into.                      *)
(***************************************************************************)
IdleCall ==
    [pc |-> "idle", file |-> NoFile, chunkDurationInSeconds |-> 0,
     audioContext |-> "none", decodedBuffer |-> NoBuffer,
     totalChunks |-> Finite(0), i |-> 0, chunks |-> <<>>,
     progress |-> <<>>, events |-> <<>>, windows |-> <<>>]

Ev(kind, i) == [ev |-> kind, i |-> i]

\* the loop has reached the indices the model keeps as one
saturated(c) == c.totalChunks.kind = "Infinity" /\ c.i >= MaxIter

\* i++
nextIndex(c) ==
    IF c.totalChunks.kind = "Infinity" /\ c.i > MaxIter THEN MaxIter
    ELSE c.i + 1

\* processAndSplitAudio up to its first await (lines 186-188)
startedCall(file, chunkDurationInSeconds) ==
    [IdleCall EXCEPT
        !.pc = "arrayBuffer",
        !.file = file,
        !.chunkDurationInSeconds = chunkDurationInSeconds,
        !.audioContext = "running",
        !.progress = <<DecodingMessage>>,
        !.events = <<Ev("onProgress", -1), Ev("await arrayBuffer", -1)>>]

\* a variant that yields before it reports the window
loopFrom_YieldFirst(c) ==
    IF LessThan(c.i, c.totalChunks)
    THEN IF saturated(c) THEN [c EXCEPT !.pc = "setTimeout"]
         ELSE [c EXCEPT
                 !.pc = "setTimeout",
                 !.progress = Append(@, chunkMessage(c.i, c.totalChunks)),
                 !.events = @ \o <<Ev("await setTimeout", c.i),
                                   Ev("onProgress", c.i)>>]
    ELSE [c EXCEPT !.pc = "close",
                   !.events = Append(@, Ev("await close", -1))]

\* the for loop from its test i < totalChunks to the next await: the
\* progress message and the yield (lines 199-205), or, when the loop is
\* over, await audioContext.close() (line 243)
loopFrom(c) ==
    IF LessThan(c.i, c.totalChunks)
    THEN IF saturated(c) THEN [c EXCEPT !.pc = "setTimeout"]
         ELSE [c EXCEPT
                 !.pc = "setTimeout",
                 !.progress = Append(@, chunkMessage(c.i, c.totalChunks)),
                 !.events = @ \o <<Ev("onProgress", c.i),
                                   Ev("await setTimeout", c.i)>>]
    ELSE [c EXCEPT !.pc = "close",
                   !.events = Append(@, Ev("await close", -1))]

\* lines 192-197, then the loop
decodedCall(c) ==
    LET decodedBuffer == decodedBufferOf(c.file)
    IN  loopFrom([c EXCEPT
            !.decodedBuffer = decodedBuffer,
            !.totalChunks = totalChunksOf(decodedBuffer.length,
                                          decodedBuffer.sampleRate,
                                          c.chunkDurationInSeconds),
            !.i = 0])

WindowOf(c) ==
    LET L  == c.decodedBuffer.length
        r  == c.decodedBuffer.sampleRate
        dn == c.chunkDurationInSeconds
    IN  [i |-> c.i,
         skip |-> skipped(c.i, L, r, dn),
         startOffset |-> startOffsetOf(c.i, r, dn),
         endOffset |-> endOffsetOf(c.i, L, r, dn)]

Log(c, log, items) == IF saturated(c) THEN log ELSE log \o items

\* one of the two "continue" statements (lines 210, 216), then the loop
continuedCall(c) ==
    loopFrom([c EXCEPT
        !.events = Log(c, @, <<Ev("resume", c.i), Ev("continue", c.i)>>),
        !.i = nextIndex(c)])

\* lines 235-240 for a window whose samples were copied into chunkBuffer
\* and encoded as wavBlob_, then the loop
pushedCall(c, chunkBuffer, wavBlob_) ==
    LET w == WindowOf(c)
    IN  loopFrom([c EXCEPT
            !.chunks = Append(@, [name |-> chunkNameOf(c.file.name, c.i + 1),
                                  blob |-> wavBlob_]),
            !.windows = Append(@, [i |-> c.i, startOffset |-> w.startOffset,
                                   endOffset |-> w.endOffset,
                                   buffer |-> chunkBuffer]),
            !.events = @ \o <<Ev("resume", c.i), Ev("createBuffer", c.i),
                              Ev("copy", c.i), Ev("encode", c.i),
                              Ev("push", c.i)>>,
            !.i = nextIndex(c)])

(***************************************************************************)
(* splitAudioFile (src/audioSplitter.ts lines 8-26).  A blob is the file   *)
(* itself or a slice of it: the bytes from .. to - 1 of the file.          *)
(***************************************************************************)
\* the File object, as the element of the returned array (line 11)
fileItself(file) ==
    [kind |-> "file", from |-> 0, to |-> file.size, type |-> file.type]

\* file.slice(start, end, contentType): a negative position counts from the
\* end of the file, positions are clamped to 0 .. file.size and the slice
\* is empty when end is not after start
slice(file, start, end, contentType) ==
    LET relativeStart == IF start < 0 THEN Max(file.size + start, 0)
                         ELSE Min(start, file.size)
        relativeEnd   == IF end < 0 THEN Max(file.size + end, 0)
                         ELSE Min(end, file.size)
        span          == Max(relativeEnd - relativeStart, 0)
    IN  [kind |-> "slice", from |-> relativeStart,
         to |-> relativeStart + span, type |-> contentType]

\* a variant that keeps a file of exactly the chunk size out of the early
\* return
returnsFileItself_StrictlySmaller(file, chunkSizeInBytes) ==
    file.size < chunkSizeInBytes

\* if (file.size <= chunkSizeInBytes)   (line 10)
returnsFileItself(file, chunkSizeInBytes) == file.size <= chunkSizeInBytes

\* no call of splitAudioFile
NoSplitCall ==
    [pc |-> "none", file |-> NoFile, chunkSizeInBytes |-> 0, start |-> 0,
     chunks |-> <<>>, passes |-> 0]

\* splitAudioFile(file, chunkSizeInBytes) at its first statement
calledSplit(file, chunkSizeInBytes) ==
    [pc |-> "called", file |-> file, chunkSizeInBytes |-> chunkSizeInBytes,
     start |-> 0, chunks |-> <<>>, passes |-> 0]

\* with a chunk size of 0 or less start never gets nearer to file.size:
\* from MaxPasses passes on the passes are kept as one, but for their
\* parity
endlessPasses(c) == c.chunkSizeInBytes <= 0 /\ c.passes >= MaxPasses

nextPass(c) ==
    IF c.chunkSizeInBytes <= 0 /\ c.passes > MaxPasses THEN MaxPasses
    ELSE c.passes + 1

(***************************************************************************)
(* The transcriber: transcribeAudio (src/unnamed/part_000 lines 18-121)    *)
(* and handleTranscription (src/App.tsx lines 73-108).  A text is a        *)
(* sequence of characters.                                                 *)
(***************************************************************************)
\* `Transcribiendo archivo ${i + 1}/${totalFiles}: ${file.name}`
ProcessingMessage(number, totalFiles, name) ==
    [text |-> "Transcribiendo archivo", number |-> number,
     totalFiles |-> totalFiles, name |-> name]

\* processingMessage === null
NoProcessingMessage == ProcessingMessage(0, 0, <<>>) @@ [text |-> "null"]

\* the messages of the errors transcribeAudio throws: lines 21, 25 and the
\* userMessage of lines 67-119
ApiKeyErrorText == "La clave API no esta configurada."

FileTypeErrorText == "No se pudo determinar el tipo de archivo."

ServiceErrorTexts ==
    {"Ocurrio un error desconocido durante la transcripcion.",
     "Se ha excedido la cuota de solicitudes por minuto."}

\* the messages transcribeAudio(file) can reject with
rejectionsOf(file, apiKey) ==
    IF ~apiKey THEN {ApiKeyErrorText}
    ELSE IF file.type = "" THEN {FileTypeErrorText}
    ELSE ServiceErrorTexts

\* the texts transcribeAudio(file) can resolve with: '' for silence or an
\* empty answer (lines 56-62), or the text the service gives for the file
resultsOf(file, apiKey) ==
    IF apiKey /\ file.type # "" THEN {<<>>, <<"t">> \o file.name}
    ELSE {}

\* err.message || 'Ocurrio un error inesperado durante la transcripcion.'
messageOr(message, fallback) == IF message = "" THEN fallback ELSE message

Separator == <<"\n", "\n", "-", "-", "-", "\n", "\n">>

\* texts.join('\n\n---\n\n')
RECURSIVE join(_)
join(texts) ==
    IF texts = <<>> THEN <<>>
    ELSE IF Len(texts) = 1 THEN texts[1]
    ELSE texts[1] \o Separator \o join(Tail(texts))

(***************************************************************************)
(* An invocation of handleTranscription: the list it was created with      *)
(* (selectedFiles of its closure), its locals and where it is suspended:   *)
(*   "transcribeAudio"  line 87     "setTimeout"  line 96                  *)
(* or "done" once it has run its finally block.  sent, inFlight and        *)
(* outcomes are logs: the files given to transcribeAudio in the order of   *)
(* the calls, the indices of the calls that have not settled, and how each *)
(* call that settled did so.                                               *)
(***************************************************************************)
IdleJob ==
    [pc |-> "idle", selectedFiles |-> <<>>, totalFiles |-> 0, i |-> 0,
     allFileTranscriptions |-> <<>>, sent |-> <<>>, inFlight |-> {},
     outcomes |-> <<>>]

\* lines 85-87 for index i: the message and the call of transcribeAudio
sentCall(j, i) ==
    [j EXCEPT !.pc = "transcribeAudio",
              !.i = i,
              !.sent = Append(@, j.selectedFiles[i + 1]),
              !.inFlight = @ \cup {i}]

\* the call for index j.i has settled
settledCall(j, outcome) ==
    [j EXCEPT !.inFlight = @ \ {j.i},
              !.outcomes = Append(@, outcome)]

\* a variant whose catch is inside the loop: it goes on with the next file
afterFailure_NextFile(j) ==
    IF j.i < j.totalFiles - 1 THEN [j EXCEPT !.pc = "setTimeout"]
    ELSE [j EXCEPT !.pc = "done"]

\* the invocation once the catch and finally blocks have run (lines
\* 103-107): the loop is left
afterFailure(j) == [j EXCEPT !.pc = "done"]

(***************************************************************************)
(* Initial states                                                          *)
(***************************************************************************)
\* the App after construction (the useState initial values, lines 15-32)
AppInit ==
    /\ activeTool = "transcriber"
    /\ selectedFiles = <<>>
    /\ status = "IDLE"
    /\ transcription = <<>>
    /\ error = "null"
    /\ processingMessage = NoProcessingMessage
    /\ splitterFile = NoFile
    /\ splitChunks = <<>>
    /\ isSplitting = FALSE
    /\ splittingMessage = NoMessage
    /\ isZipping = FALSE
    /\ splitterError = "null"
    /\ chunkDuration = 180 * DurDen
    /\ calls = [p \in 1..MaxRuns |-> IdleCall]

Init ==
    /\ AppInit
    /\ wavBuffer = NoBuffer /\ wavBlob = NoBlob /\ wavCalls = <<>>
    /\ splitCall = NoSplitCall
    /\ jobs = [q \in 1..MaxJobs |-> IdleJob]
    /\ API_KEY = TRUE

(***************************************************************************)
(* App handlers (src/App.tsx)                                              *)
(***************************************************************************)
\* the block of lines 263-298 is rendered: the file's name with its remove
\* button, the chunk-duration input and the "Dividir Archivo" button
SplitControlsRendered ==
    /\ activeTool = "splitter"
    /\ splitterFile # NoFile
    /\ ~isSplitting
    /\ splitChunks = <<>>

\* lines 34-47
handleReset ==
    /\ selectedFiles' = <<>>
    /\ transcription' = <<>>
    /\ error' = "null"
    /\ processingMessage' = NoProcessingMessage
    /\ status' = "IDLE"
    /\ splitterFile' = NoFile
    /\ splitChunks' = <<>>
    /\ splitterError' = "null"
    /\ isSplitting' = FALSE
    /\ splittingMessage' = NoMessage
    /\ isZipping' = FALSE

\* lines 49-52; the two tool buttons are always rendered (lines 378-393)
handleToolChange(tool) ==
    /\ handleReset
    /\ activeTool' = tool
    /\ UNCHANGED <<chunkDuration, calls, pureVars, jobVars>>

\* lines 111-117; the FileInput is rendered while there is no splitterFile
\* (lines 254-261) and calls onFilesAdd with at least one file
handleSplitterFileAdd(files) ==
    /\ activeTool = "splitter"
    /\ splitterFile = NoFile
    /\ Len(files) > 0
    /\ splitterFile' = files[1]
    /\ splitChunks' = <<>>
    /\ splitterError' = "null"
    /\ UNCHANGED <<activeTool, transcriberVars, isSplitting, splittingMessage,
                   isZipping, chunkDuration, calls, pureVars, jobVars>>

\* lines 119-123, from the remove button (line 268), "Intentar con otro
\* archivo" (line 312) or "Empezar de Nuevo" (line 345)
handleSplitterFileRemove ==
    /\ activeTool = "splitter"
    /\ \/ SplitControlsRendered
       \/ splitterError # "null"
       \/ splitChunks # <<>>
    /\ splitterFile' = NoFile
    /\ splitChunks' = <<>>
    /\ splitterError' = "null"
    /\ UNCHANGED <<activeTool, transcriberVars, isSplitting, splittingMessage,
                   isZipping, chunkDuration, calls, pureVars, jobVars>>

\* line 285: onChange={(e) => setChunkDuration(Number(e.target.value))}
setChunkDuration(dn) ==
    /\ SplitControlsRendered
    /\ chunkDuration' = dn
    /\ UNCHANGED <<activeTool, transcriberVars, splitterFile, splitChunks,
                   isSplitting, splittingMessage, isZipping, splitterError,
                   calls, pureVars, jobVars>>

\* lines 125-138, up to the first await inside processAndSplitAudio: the
\* message set at line 130 is replaced at once by the one of onProgress
handleSplit ==
    /\ SplitControlsRendered
    /\ splitterFile # NoFile
    /\ \E p \in 1..MaxRuns :
        /\ calls[p].pc = "idle"
        /\ \A q \in 1..(p - 1) : calls[q].pc # "idle"
        /\ calls' = [calls EXCEPT ![p] = startedCall(splitterFile, chunkDuration)]
    /\ isSplitting' = TRUE
    /\ splitterError' = "null"
    /\ splitChunks' = <<>>
    /\ splittingMessage' = DecodingMessage
    /\ UNCHANGED <<activeTool, transcriberVars, splitterFile, isZipping,
                   chunkDuration, pureVars, jobVars>>

(***************************************************************************)
(* The steps of an invocation after each await.  A step is everything that *)
(* runs until the next await: JavaScript runs it without interruption, the *)
(* continuation of handleSplit included.                                   *)
(***************************************************************************)
\* the invocation goes on to its next await as c; onProgress, when it was
\* called, has set splittingMessage (App.tsx lines 135-137)
Continue(p, c) ==
    /\ \E next \in {c} :
        /\ calls' = [calls EXCEPT ![p] = next]
        /\ splittingMessage' =
              IF next.pc = "setTimeout"
              THEN chunkMessage(next.i, next.totalChunks)
              ELSE splittingMessage
    /\ UNCHANGED <<activeTool, transcriberVars, splitterFile, splitChunks,
                   isSplitting, isZipping, splitterError, chunkDuration,
                   pureVars, jobVars>>

\* processAndSplitAudio rejects: catch and finally of handleSplit
\* (App.tsx lines 140-146)
Reject(p, c) ==
    /\ calls' = [calls EXCEPT ![p] = [c EXCEPT !.pc = "rejected"]]
    /\ splitterError' = SplitErrorText
    /\ isSplitting' = FALSE
    /\ splittingMessage' = NoMessage
    /\ UNCHANGED <<activeTool, transcriberVars, splitterFile, splitChunks,
                   isZipping, chunkDuration, pureVars, jobVars>>

\* processAndSplitAudio resolves with its chunks: line 139 and finally
Resolve(p, c) ==
    /\ \E last \in {c} :
        /\ calls' = [calls EXCEPT ![p] = [last EXCEPT !.pc = "resolved"]]
        /\ splitChunks' = last.chunks
    /\ isSplitting' = FALSE
    /\ splittingMessage' = NoMessage
    /\ UNCHANGED <<activeTool, transcriberVars, splitterFile, isZipping,
                   splitterError, chunkDuration, pureVars, jobVars>>

\* file.arrayBuffer() resolves: decodeAudioData is called (line 190)
arrayBufferResolves(p) ==
    /\ calls[p].pc = "arrayBuffer"
    /\ Continue(p, [calls[p] EXCEPT
            !.pc = "decodeAudioData",
            !.events = Append(@, Ev("await decodeAudioData", -1))])

\* file.arrayBuffer() rejects (the file cannot be read)
arrayBufferRejects(p) ==
    /\ calls[p].pc = "arrayBuffer"
    /\ Reject(p, calls[p])

\* decodeAudioData resolves: lines 192-205
decodeResolves(p) ==
    /\ calls[p].pc = "decodeAudioData"
    /\ Continue(p, decodedCall(calls[p]))

\* decodeAudioData rejects (no decodable audio)
decodeRejects(p) ==
    /\ calls[p].pc = "decodeAudioData"
    /\ Reject(p, calls[p])

\* the timer of line 205 fires and the window is skipped
windowSkipped(p) ==
    /\ calls[p].pc = "setTimeout"
    /\ WindowOf(calls[p]).skip
    /\ Continue(p, continuedCall(calls[p]))

\* the timer fires and the window's chunk is built (lines 219-230),
\* encoded (line 233) and pushed
chunkPushed(p) ==
    /\ calls[p].pc = "setTimeout"
    /\ ~WindowOf(calls[p]).skip
    /\ \E chunkBuffer \in {copiedChunkBuffer(calls[p].decodedBuffer,
                                             WindowOf(calls[p]).startOffset,
                                             WindowOf(calls[p]).endOffset)} :
       \E wavBlob_ \in {audioBufferToWav(chunkBuffer)} :
          Continue(p, pushedCall(calls[p], chunkBuffer, wavBlob_))

\* the timer fires and audioContext.createBuffer throws (line 219)
createBufferThrows(p) ==
    /\ calls[p].pc = "setTimeout"
    /\ ~WindowOf(calls[p]).skip
    /\ Reject(p, [calls[p] EXCEPT
            !.events = @ \o <<Ev("resume", calls[p].i)>>])

\* the timer fires, the samples are copied and audioBufferToWav throws
\* (line 233: the ArrayBuffer of line 126 cannot be allocated)
audioBufferToWavThrows(p) ==
    /\ calls[p].pc = "setTimeout"
    /\ ~WindowOf(calls[p]).skip
    /\ Reject(p, [calls[p] EXCEPT
            !.events = @ \o <<Ev("resume", calls[p].i),
                              Ev("createBuffer", calls[p].i),
                              Ev("copy", calls[p].i)>>])

\* audioContext.close() resolves: line 244 and the rest of handleSplit
closeResolves(p) ==
    /\ calls[p].pc = "close"
    /\ Resolve(p, [calls[p] EXCEPT !.audioContext = "closed"])

\* a step of invocation p that the platform takes (a promise settles, a
\* timer fires)
CallStep(p) ==
    \/ arrayBufferResolves(p)
    \/ arrayBufferRejects(p)
    \/ decodeResolves(p)
    \/ decodeRejects(p)
    \/ windowSkipped(p)
    \/ chunkPushed(p)
    \/ createBufferThrows(p)
    \/ audioBufferToWavThrows(p)
    \/ closeResolves(p)

(***************************************************************************)
(* Spec: the App with its splitter, splits overlapping when a tool button  *)
(* resets the App while a split is suspended.                              *)
(***************************************************************************)
Next ==
    \/ \E tool \in {"transcriber", "splitter"} : handleToolChange(tool)
    \/ \E f \in AppFiles : handleSplitterFileAdd(<<f>>)
    \/ handleSplitterFileRemove
    \/ \E dn \in AppDurations : setChunkDuration(dn)
    \/ handleSplit
    \/ \E p \in 1..MaxRuns : CallStep(p)

\* a pending promise settles and a pending timer fires
Fairness == \A p \in 1..MaxRuns : WF_vars(CallStep(p))

Spec == Init /\ [][Next]_vars /\ Fairness

(***************************************************************************)
(* SplitSpec: one split, of any of InputFiles with any of InputDurations   *)
(* typed into the chunk-duration input, and nothing else going on.         *)
(***************************************************************************)
SplitInit ==
    /\ activeTool = "splitter"
    /\ selectedFiles = <<>>
    /\ status = "IDLE"
    /\ transcription = <<>>
    /\ error = "null"
    /\ processingMessage = NoProcessingMessage
    /\ splitterFile \in InputFiles
    /\ splitChunks = <<>>
    /\ isSplitting = FALSE
    /\ splittingMessage = NoMessage
    /\ isZipping = FALSE
    /\ splitterError = "null"
    /\ chunkDuration \in InputDurations
    /\ calls = [p \in 1..MaxRuns |-> IdleCall]
    /\ wavBuffer = NoBuffer
    /\ wavBlob = NoBlob
    /\ wavCalls = <<>>
    /\ splitCall = NoSplitCall
    /\ jobs = [q \in 1..MaxJobs |-> IdleJob]
    /\ API_KEY = TRUE

SplitNext ==
    \/ calls[1].pc = "idle" /\ handleSplit
    \/ CallStep(1)

SplitSpec == SplitInit /\ [][SplitNext]_vars /\ WF_vars(CallStep(1))

(***************************************************************************)
(* WavSpec: audioBufferToWav applied to a buffer, and then called again,   *)
(* with that buffer or another one.                                        *)
(***************************************************************************)
\* a variant whose write offset (line 156) is kept from one call to the
\* next: once a call has written samples, a later write is out of range and
\* the call returns no blob
audioBufferToWavAfter_SharedOffset(buffer, earlier) ==
    IF /\ \E k \in 1..Len(earlier) :
             earlier[k].buffer.length * earlier[k].buffer.numberOfChannels > 0
       /\ buffer.length * buffer.numberOfChannels > 0
    THEN NoBlob
    ELSE audioBufferToWav(buffer)

\* the blob a call returns when the calls of earlier were made before it:
\* all that a call writes to is created by the call itself (the ArrayBuffer
\* and the DataView of lines 126-127, the offset of line 156)
audioBufferToWavAfter(buffer, earlier) == audioBufferToWav(buffer)

WavInit ==
    /\ AppInit
    /\ wavBuffer \in WavBuffers
    /\ wavBlob = NoBlob
    /\ wavCalls = <<>>
    /\ splitCall = NoSplitCall
    /\ jobs = [q \in 1..MaxJobs |-> IdleJob]
    /\ API_KEY = TRUE

\* the first call: wavBuffer is encoded
encodeWav ==
    /\ wavBlob = NoBlob
    /\ wavBlob' = audioBufferToWav(wavBuffer)
    /\ wavCalls' = <<[buffer |-> wavBuffer, blob |-> wavBlob']>>
    /\ UNCHANGED <<activeTool, transcriberVars, splitterVars, calls, jobVars,
                   wavBuffer, splitCall>>

\* a later call, of the buffer b
encodeWavAgain(b) ==
    /\ wavBlob # NoBlob
    /\ Len(wavCalls) < MaxWavCalls
    /\ \E blob \in {audioBufferToWavAfter(b, wavCalls)} :
          wavCalls' = Append(wavCalls, [buffer |-> b, blob |-> blob])
    /\ UNCHANGED <<activeTool, transcriberVars, splitterVars, calls, jobVars,
                   wavBuffer, wavBlob, splitCall>>

WavNext ==
    \/ encodeWav
    \/ \E b \in {wavBuffer, WavOther} : encodeWavAgain(b)

WavSpec == WavInit /\ [][WavNext]_vars

(***************************************************************************)
(* The steps of a call of splitAudioFile                                   *)
(***************************************************************************)
\* lines 10-15: the early return, or the locals of the loop
splitAudioFileBegins ==
    /\ splitCall.pc = "called"
    /\ splitCall' =
          IF returnsFileItself(splitCall.file, splitCall.chunkSizeInBytes)
          THEN [splitCall EXCEPT !.pc = "returned",
                                 !.chunks = <<fileItself(splitCall.file)>>]
          ELSE [splitCall EXCEPT !.pc = "while"]
    /\ UNCHANGED <<activeTool, transcriberVars, splitterVars, calls, jobVars, wavVars>>

\* one pass of the while loop (lines 17-23)
whilePass ==
    /\ splitCall.pc = "while"
    /\ splitCall.start < splitCall.file.size
    /\ LET end   == Min(splitCall.start + splitCall.chunkSizeInBytes,
                        splitCall.file.size)
           chunk == slice(splitCall.file, splitCall.start, end,
                          splitCall.file.type)
       IN  splitCall' =
              IF endlessPasses(splitCall)
              THEN [splitCall EXCEPT !.passes = nextPass(splitCall)]
              ELSE [splitCall EXCEPT !.chunks = Append(@, chunk),
                                     !.start = end,
                                     !.passes = nextPass(splitCall)]
    /\ UNCHANGED <<activeTool, transcriberVars, splitterVars, calls, jobVars, wavVars>>

\* the loop is over: return chunks (line 25)
whileEnds ==
    /\ splitCall.pc = "while"
    /\ ~(splitCall.start < splitCall.file.size)
    /\ splitCall' = [splitCall EXCEPT !.pc = "returned"]
    /\ UNCHANGED <<activeTool, transcriberVars, splitterVars, calls, jobVars, wavVars>>

(***************************************************************************)
(* FileSplitSpec: splitAudioFile called with any of ByteFiles and any of   *)
(* ChunkSizes; the call runs on until it returns.                          *)
(***************************************************************************)
FileSplitInit ==
    /\ AppInit
    /\ wavBuffer = NoBuffer /\ wavBlob = NoBlob /\ wavCalls = <<>>
    /\ jobs = [q \in 1..MaxJobs |-> IdleJob]
    /\ API_KEY = TRUE
    /\ splitCall \in { calledSplit(file, chunkSizeInBytes) :
                         file \in ByteFiles, chunkSizeInBytes \in ChunkSizes }

FileSplitNext ==
    \/ splitAudioFileBegins
    \/ whilePass
    \/ whileEnds

FileSplitSpec ==
    FileSplitInit /\ [][FileSplitNext]_vars /\ WF_vars(FileSplitNext)

(***************************************************************************)
(* The steps of handleTranscription                                        *)
(***************************************************************************)
\* lines 73-87: the button 'Transcribir' is rendered with status IDLE and
\* is disabled while no file is selected (lines 218-241); q is the first
\* invocation record that is not in use
handleTranscription(q) ==
    /\ activeTool = "transcriber"
    /\ status = "IDLE"
    /\ selectedFiles # <<>>
    /\ jobs[q].pc = "idle"
    /\ \A o \in 1..(q - 1) : jobs[o].pc # "idle"
    /\ status' = "PROCESSING"
    /\ error' = "null"
    /\ transcription' = <<>>
    /\ \E j \in {sentCall([IdleJob EXCEPT
                              !.selectedFiles = selectedFiles,
                              !.totalFiles = Len(selectedFiles)], 0)} :
          /\ jobs' = [jobs EXCEPT ![q] = j]
          /\ processingMessage' =
                ProcessingMessage(1, j.totalFiles, j.selectedFiles[1].name)
    /\ UNCHANGED <<activeTool, selectedFiles, splitterVars, calls, pureVars,
                   API_KEY>>

\* transcribeAudio resolves with result: lines 89-101, and finally when it
\* was the last file
transcribeAudioResolves(q, result) ==
    /\ jobs[q].pc = "transcribeAudio"
    /\ result \in resultsOf(jobs[q].selectedFiles[jobs[q].i + 1], API_KEY)
    /\ \E j \in {[settledCall(jobs[q], "returned") EXCEPT
                    !.allFileTranscriptions =
                        IF result # <<>> THEN Append(@, result) ELSE @]} :
          IF j.i < j.totalFiles - 1
          THEN /\ jobs' = [jobs EXCEPT ![q] = [j EXCEPT !.pc = "setTimeout"]]
               /\ UNCHANGED <<transcription, status, processingMessage>>
          ELSE /\ jobs' = [jobs EXCEPT ![q] = [j EXCEPT !.pc = "done"]]
               /\ transcription' = join(j.allFileTranscriptions)
               /\ status' = "SUCCESS"
               /\ processingMessage' = NoProcessingMessage
    /\ UNCHANGED <<activeTool, selectedFiles, error, splitterVars, calls,
                   pureVars, API_KEY>>

\* transcribeAudio rejects with an Error of the given message: catch and
\* finally (lines 102-107)
transcribeAudioRejects(q, message) ==
    /\ jobs[q].pc = "transcribeAudio"
    /\ message \in rejectionsOf(jobs[q].selectedFiles[jobs[q].i + 1], API_KEY)
    /\ \E j \in {afterFailure(settledCall(jobs[q], "failed"))} :
          /\ jobs' = [jobs EXCEPT ![q] = j]
          /\ error' = messageOr(message,
                "Ocurrio un error inesperado durante la transcripcion.")
          /\ status' = "ERROR"
          /\ processingMessage' = NoProcessingMessage
    /\ UNCHANGED <<activeTool, selectedFiles, transcription, splitterVars,
                   calls, pureVars, API_KEY>>

\* the one-second timer of line 96 fires: i++, then lines 85-87
delayElapsed(q) ==
    /\ jobs[q].pc = "setTimeout"
    /\ \E j \in {sentCall(jobs[q], jobs[q].i + 1)} :
          /\ jobs' = [jobs EXCEPT ![q] = j]
          /\ processingMessage' =
                ProcessingMessage(j.i + 1, j.totalFiles,
                                  j.selectedFiles[j.i + 1].name)
    /\ UNCHANGED <<activeTool, selectedFiles, status, transcription, error,
                   splitterVars, calls, pureVars, API_KEY>>

\* a step of invocation q that the platform takes
JobStep(q) ==
    \/ \E result \in {<<>>} \cup
                     { <<"t">> \o MediaFile(k).name : k \in 1..MaxFiles } :
          transcribeAudioResolves(q, result)
    \/ \E message \in {ApiKeyErrorText, FileTypeErrorText}
                      \cup ServiceErrorTexts :
          transcribeAudioRejects(q, message)
    \/ delayElapsed(q)

(***************************************************************************)
(* TranscribeSpec: one transcription, of any list of FileLists, with and   *)
(* without the API key, and nothing else going on.                         *)
(***************************************************************************)
TranscribeInit ==
    /\ activeTool = "transcriber"
    /\ selectedFiles \in { [k \in DOMAIN list |-> MediaFile(list[k])] \o <<>> :
                             list \in FileLists }
    /\ status = "IDLE"
    /\ transcription = <<>>
    /\ error = "null"
    /\ processingMessage = NoProcessingMessage
    /\ splitterFile = NoFile
    /\ splitChunks = <<>>
    /\ isSplitting = FALSE
    /\ splittingMessage = NoMessage
    /\ isZipping = FALSE
    /\ splitterError = "null"
    /\ chunkDuration = 180 * DurDen
    /\ calls = [p \in 1..MaxRuns |-> IdleCall]
    /\ wavBuffer = NoBuffer /\ wavBlob = NoBlob /\ wavCalls = <<>>
    /\ splitCall = NoSplitCall
    /\ jobs = [q \in 1..MaxJobs |-> IdleJob]
    /\ API_KEY \in BOOLEAN

TranscribeNext ==
    \/ jobs[1].pc = "idle" /\ handleTranscription(1)
    \/ JobStep(1)

TranscribeSpec ==
    TranscribeInit /\ [][TranscribeNext]_vars /\ WF_vars(JobStep(1))

(***************************************************************************)
(* The file list of the transcriber (src/App.tsx lines 55-71)              *)
(***************************************************************************)
\* newFiles.filter(f => !existingFileNames.has(f.name)), existingFileNames
\* being the names of prevFiles (lines 57-58)
uniqueNewFilesOf(prevFiles, newFiles) ==
    LET existingFileNames == { prevFiles[k].name : k \in 1..Len(prevFiles) }
        isNew(f) == f.name \notin existingFileNames
    IN  SelectSeq(newFiles, isNew)

\* lines 55-63; the FileInput of the transcriber is rendered with status
\* IDLE (lines 218-229)
handleFilesAdd(newFiles) ==
    /\ activeTool = "transcriber"
    /\ status = "IDLE"
    /\ selectedFiles' = selectedFiles \o uniqueNewFilesOf(selectedFiles, newFiles)
    /\ status' = "IDLE"
    /\ error' = "null"
    /\ UNCHANGED <<activeTool, transcription, processingMessage, splitterVars,
                   calls, pureVars, jobVars>>

\* lines 65-67: the files that are not the object fileToRemove are kept
handleRemoveFile(fileToRemove) ==
    /\ activeTool = "transcriber"
    /\ status = "IDLE"
    /\ \E k \in 1..Len(selectedFiles) : selectedFiles[k] = fileToRemove
    /\ LET isOther(file) == file # fileToRemove
       IN  selectedFiles' = SelectSeq(selectedFiles, isOther)
    /\ UNCHANGED <<activeTool, status, transcription, error, processingMessage,
                   splitterVars, calls, pureVars, jobVars>>

\* lines 69-71
handleClearAllFiles ==
    /\ activeTool = "transcriber"
    /\ status = "IDLE"
    /\ selectedFiles' = <<>>
    /\ UNCHANGED <<activeTool, status, transcription, error, processingMessage,
                   splitterVars, calls, pureVars, jobVars>>

\* the button 'Volver' or 'Intentar de Nuevo' (lines 198-214): handleReset
resetClicked ==
    /\ activeTool = "transcriber"
    /\ status \in {"SUCCESS", "ERROR"}
    /\ handleReset
    /\ UNCHANGED <<activeTool, chunkDuration, calls, pureVars, jobVars>>

(***************************************************************************)
(* TranscriberSpec: the App with its transcriber in use: files are added,  *)
(* transcriptions are started, the user changes the tool or resets while   *)
(* they are in flight; the splitter is left alone.                         *)
(***************************************************************************)
TranscriberInit ==
    /\ AppInit
    /\ wavBuffer = NoBuffer /\ wavBlob = NoBlob /\ wavCalls = <<>>
    /\ splitCall = NoSplitCall
    /\ jobs = [q \in 1..MaxJobs |-> IdleJob]
    /\ API_KEY \in BOOLEAN

TranscriberNext ==
    \/ \E tool \in {"transcriber", "splitter"} : handleToolChange(tool)
    \/ resetClicked
    \/ \E newFiles \in AppBatches : handleFilesAdd(newFiles)
    \/ handleClearAllFiles
    \/ \E q \in 1..MaxJobs : handleTranscription(q)
    \/ \E q \in 1..MaxJobs : JobStep(q)

TranscriberSpec ==
    /\ TranscriberInit
    /\ [][TranscriberNext]_vars
    /\ \A q \in 1..MaxJobs : WF_vars(JobStep(q))

(***************************************************************************)
(* FilesSpec: the file list of the transcriber as the user adds batches of *)
(* PickedBatches, removes files and clears the list.                       *)
(***************************************************************************)
FilesInit == Init

FilesNext ==
    \/ \E newFiles \in PickedBatches : handleFilesAdd(newFiles)
    \/ \E k \in 1..MaxPicked : handleRemoveFile(PickedFile(k))
    \/ handleClearAllFiles

FilesSpec == FilesInit /\ [][FilesNext]_vars

(***************************************************************************)
(* Properties of one split (SplitSpec).  run is the invocation, L, r and   *)
(* dn its decoded length, sample rate and chunk duration.                  *)
(***************************************************************************)
run == calls[1]

settled(c) == c.pc \in {"resolved", "rejected"}

framesOf(w) == w.endOffset - w.startOffset

\* the positions of log at which a step of the given kind is recorded
positionsOf(log, kind) == {k \in 1..Len(log) : log[k].ev = kind}

\* C1: for L >= 1 frames and a positive chunk duration, the frame ranges of
\* the emitted chunks are non-empty, each starts where the previous one
\* ended, the first starts at 0 and the last ends at L.
C1_WindowsCoverAllFrames ==
    (/\ run.pc = "resolved"
     /\ run.decodedBuffer.length >= 1
     /\ run.chunkDurationInSeconds > 0)
    => /\ Len(run.windows) >= 1
       /\ \A k \in 1..Len(run.windows) :
            /\ framesOf(run.windows[k]) > 0
            /\ run.windows[k].startOffset =
                  (IF k = 1 THEN 0 ELSE run.windows[k - 1].endOffset)
       /\ run.windows[Len(run.windows)].endOffset = run.decodedBuffer.length

\* C2: a split that has started eventually resolves or rejects and
\* isSplitting returns to false, whatever chunk duration was typed.
C2_SplitSettles == isSplitting ~> (settled(run) /\ ~isSplitting)

\* C3: when a split fails, handleSplit leaves splitChunks empty and
\* splitterError set: no chunk is exposed next to the failure.
C3_FailureExposesNoChunks ==
    [][\A p \in 1..MaxRuns :
          (calls[p].pc # "rejected" /\ calls'[p].pc = "rejected")
          => (splitChunks' = <<>> /\ splitterError' # "null")]_vars

\* C4: once processAndSplitAudio has resolved or rejected, the AudioContext
\* it opened has been closed.
C4_ContextClosedOnExit == settled(run) => run.audioContext = "closed"

\* C5: onProgress receives a 'chunk i of N' message only for the windows
\* whose chunk is emitted: a skipped window is not reported.
C5_OnlyEmittedWindowsReported ==
    run.pc = "resolved"
    => { run.progress[k].chunkNumber : k \in 2..Len(run.progress) }
         = { run.windows[k].i + 1 : k \in 1..Len(run.windows) }

\* C6: the progress sink receives the 'decoding' message first and once,
\* then only 'chunk k of N' messages with the same N, k starting at 1,
\* strictly increasing and never above N.
C6_ProgressMessages ==
    run.pc # "idle"
    => /\ Len(run.progress) >= 1
       /\ run.progress[1].text = "Decodificando el archivo..."
       /\ \A k \in 2..Len(run.progress) :
            /\ run.progress[k].text = "Procesando trozo"
            /\ run.progress[k].totalChunks = run.progress[2].totalChunks
            /\ run.progress[k].totalChunks = run.totalChunks
            /\ LessThan(run.progress[k].chunkNumber - 1,
                        run.progress[k].totalChunks)
            /\ run.progress[k].chunkNumber =
                  (IF k = 2 THEN 1 ELSE run.progress[k - 1].chunkNumber + 1)

\* a split has finished after reporting at least three chunks
C6_Witness == run.pc = "resolved" /\ Len(run.progress) >= 4

\* C7: every chunk is copied and encoded after the yield that follows its
\* own progress message; windows are notified in increasing index order; a
\* chunk is pushed before the next window is notified; and between the end
\* of decoding and the end of the loop the run is suspended at the
\* per-window timer only.
C7_EventOrder ==
    LET E == run.events
        at(kind, i) == {k \in positionsOf(E, kind) : E[k].i = i}
        awaits == {k \in 1..Len(E) :
                     E[k].ev \in {"await arrayBuffer", "await decodeAudioData",
                                  "await setTimeout", "await close"}}
    IN  /\ \A k \in positionsOf(E, "copy") \cup positionsOf(E, "encode") :
             \E a \in at("onProgress", E[k].i),
                b \in at("await setTimeout", E[k].i) : a < b /\ b < k
        /\ \A u \in positionsOf(E, "push") :
             \E k \in at("copy", E[u].i), e \in at("encode", E[u].i) :
                 k < e /\ e < u
        /\ \A a, b \in positionsOf(E, "onProgress") : a < b => E[a].i < E[b].i
        /\ \A u \in positionsOf(E, "push"), a \in positionsOf(E, "onProgress") :
             E[a].i > E[u].i => u < a
        /\ \A k \in awaits :
             (/\ \E d \in positionsOf(E, "await decodeAudioData") : d < k
              /\ E[k].ev # "await close")
             => /\ E[k].ev = "await setTimeout"
                /\ k > 1
                /\ E[k - 1] = Ev("onProgress", E[k].i)

\* a split has finished with at least two chunks copied and encoded
C7_Witness ==
    /\ run.pc = "resolved"
    /\ Cardinality(positionsOf(run.events, "encode")) >= 2

\* C8: with a whole number d >= 1 of seconds and L >= 1 frames there are
\* n = ceil(L / (d * r)) chunks, of d * r frames each but the last, which
\* has L - (n - 1) * d * r frames.
C8_ChunkCountAndSizes ==
    LET d == run.chunkDurationInSeconds \div DurDen
        r == run.decodedBuffer.sampleRate
        L == run.decodedBuffer.length
        n == CeilDiv(L, d * r)
    IN  (/\ run.pc = "resolved"
         /\ run.chunkDurationInSeconds >= DurDen
         /\ run.chunkDurationInSeconds % DurDen = 0
         /\ L >= 1)
        => /\ Len(run.windows) = n
           /\ \A k \in 1..Len(run.windows) :
                framesOf(run.windows[k]) =
                    (IF k < n THEN d * r ELSE L - (n - 1) * d * r)

\* the name up to its last '.', the whole name when it has no '.' after
\* its first character
baseNameOf(name) ==
    LET dots == {j \in 2..Len(name) : name[j] = "."}
    IN  IF dots = {} THEN name
        ELSE SubSeq(name, 1, (CHOOSE j \in dots : \A h \in dots : h <= j) - 1)

digitValue(ch) ==
    CASE ch = "0" -> 0 [] ch = "1" -> 1 [] ch = "2" -> 2 [] ch = "3" -> 3
      [] ch = "4" -> 4 [] ch = "5" -> 5 [] ch = "6" -> 6 [] ch = "7" -> 7
      [] ch = "8" -> 8 [] ch = "9" -> 9

\* the number a sequence of decimal digits denotes
RECURSIVE decimalValue(_)
decimalValue(digits) ==
    IF digits = <<>> THEN 0
    ELSE 10 * decimalValue(SubSeq(digits, 1, Len(digits) - 1))
            + digitValue(digits[Len(digits)])

\* what stands between '<base>_parte_' and '.wav' in a chunk's name
numberPartOf(c, k) ==
    SubSeq(c.chunks[k].name, Len(baseNameOf(c.file.name)) + 8,
           Len(c.chunks[k].name) - 4)

\* C9 (as stated): every chunk is named '<base>_parte_<NN>.wav' with NN of
\* exactly two digits, whatever the number of chunks.
C9_TwoDigitNames ==
    \A k \in 1..Len(run.chunks) :
        Len(run.chunks[k].name) = Len(baseNameOf(run.file.name)) + 7 + 2 + 4

\* C9 (amended): every chunk is named '<base>_parte_<NN>.wav' where <base>
\* is the file name without its extension and NN is the 1-based index of
\* the chunk's window in decimal, padded with zeros to two digits and
\* longer, without a leading zero, from index 100 on.
C9_ChunkNames ==
    \A k \in 1..Len(run.chunks) :
        LET name   == run.chunks[k].name
            prefix == baseNameOf(run.file.name)
                        \o <<"_", "p", "a", "r", "t", "e", "_">>
            digits == numberPartOf(run, k)
        IN  /\ Len(name) >= Len(prefix) + 2 + 4
            /\ SubSeq(name, 1, Len(prefix)) = prefix
            /\ SubSeq(name, Len(name) - 3, Len(name)) = <<".", "w", "a", "v">>
            /\ \A j \in 1..Len(digits) :
                 digits[j] \in {"0", "1", "2", "3", "4", "5", "6", "7", "8", "9"}
            /\ decimalValue(digits) = run.windows[k].i + 1
            /\ Len(digits) = 2 \/ digits[1] # "0"

\* a split has finished with a hundred chunks or more
C9_Witness == run.pc = "resolved" /\ Len(run.chunks) >= 100

(***************************************************************************)
(* Properties of audioBufferToWav (WavSpec)                                *)
(***************************************************************************)
\* the unsigned integers read little-endian from byte offset o
uint16At(bytes, o) == bytes[o + 1] + 256 * bytes[o + 2]

uint32At(bytes, o) ==
    bytes[o + 1] + 256 * bytes[o + 2] + 65536 * bytes[o + 3]
        + 16777216 * bytes[o + 4]

\* C10: the blob of a buffer of L frames, C channels and sample rate r has
\* 44 + L * C * 2 bytes and its header holds, little-endian, 'RIFF',
\* 36 + dataSize, 'WAVE', 'fmt ', 16, format 1, C, r, r * C * 2, C * 2, 16,
\* 'data' and dataSize = L * C * 2 at offsets 0, 4, 8, 12, 16, 20, 22, 24,
\* 28, 32, 34, 36 and 40.
C10_WavLayout ==
    wavBlob # NoBlob
    => LET b == wavBlob.bytes
           C == wavBuffer.numberOfChannels
           r == wavBuffer.sampleRate
           dataSize == wavBuffer.length * C * 2
       IN  /\ wavBlob.type = "audio/wav"
           /\ Len(b) = 44 + dataSize
           /\ \A j \in 1..Len(b) : b[j] \in 0..255
           /\ SubSeq(b, 1, 4) = <<82, 73, 70, 70>>
           /\ uint32At(b, 4) = 36 + dataSize
           /\ SubSeq(b, 9, 12) = <<87, 65, 86, 69>>
           /\ SubSeq(b, 13, 16) = <<102, 109, 116, 32>>
           /\ uint32At(b, 16) = 16
           /\ uint16At(b, 20) = 1
           /\ uint16At(b, 22) = C
           /\ uint32At(b, 24) = r
           /\ uint32At(b, 28) = r * C * 2
           /\ uint16At(b, 32) = C * 2
           /\ uint16At(b, 34) = 16
           /\ SubSeq(b, 37, 40) = <<100, 97, 116, 97>>
           /\ uint32At(b, 40) = dataSize

\* a stereo 44100 Hz buffer with frames in it has been encoded
C10_Witness ==
    /\ wavBlob # NoBlob
    /\ wavBuffer.sampleRate = 44100
    /\ wavBuffer.numberOfChannels = 2
    /\ wavBuffer.length >= 1

\* the signed 16-bit integer read little-endian from byte offset o
int16At(bytes, o) ==
    IF uint16At(bytes, o) >= 32768 THEN uint16At(bytes, o) - 65536
    ELSE uint16At(bytes, o)

\* the sample (in 1/SampleDen) of channel c at frame f of the encoded buffer
\* and the 16-bit integer the blob holds for it
sampleOf(f, c) == wavBuffer.channelData[c + 1][f + 1]

writtenFor(f, c) ==
    int16At(wavBlob.bytes, 44 + 2 * (f * wavBuffer.numberOfChannels + c))

\* C11: a sample of 1.0 or more is written as 32767, a sample of -1.0 or
\* less as -32768, and no written value wraps around: it has the sign of
\* its sample.
C11_ClampedQuantization ==
    wavBlob # NoBlob
    => \A f \in 0..(wavBuffer.length - 1),
          c \in 0..(wavBuffer.numberOfChannels - 1) :
            /\ sampleOf(f, c) >= SampleDen => writtenFor(f, c) = 32767
            /\ sampleOf(f, c) <= -SampleDen => writtenFor(f, c) = -32768
            /\ sampleOf(f, c) > 0 => writtenFor(f, c) > 0
            /\ sampleOf(f, c) < 0 => writtenFor(f, c) < 0
            /\ sampleOf(f, c) = 0 => writtenFor(f, c) = 0

\* a buffer holding 1.0, 1.5, -1.0 and -1.5 has been encoded
C11_Witness ==
    /\ wavBlob # NoBlob
    /\ \A sn \in {SampleDen, SampleDen + 2, -SampleDen, -SampleDen - 2} :
         \E f \in 0..(wavBuffer.length - 1),
            c \in 0..(wavBuffer.numberOfChannels - 1) : sampleOf(f, c) = sn

\* Math.round(num / den): the nearest integer, a half going up
roundedQuotient(num, den) == FloorDiv(2 * num + den, 2 * den)

\* C12: the value written for a sample s clamped to [-1, 1] is
\* round(s * 32768) when s < 0 and round(s * 32767) otherwise.
C12_RoundedToNearest ==
    wavBlob # NoBlob
    => \A f \in 0..(wavBuffer.length - 1),
          c \in 0..(wavBuffer.numberOfChannels - 1) :
            LET s == Max(-SampleDen, Min(SampleDen, sampleOf(f, c)))
            IN  writtenFor(f, c) =
                   roundedQuotient(IF s < 0 THEN s * 32768 ELSE s * 32767,
                                   SampleDen)

\* C13: the 16-bit sample of channel c at frame f is stored at byte offset
\* 44 + 2 * (f * C + c): all channels of a frame before the next frame.
C13_Interleaved ==
    wavBlob # NoBlob
    => \A f \in 0..(wavBuffer.length - 1),
          c \in 0..(wavBuffer.numberOfChannels - 1) :
            LET s == Max(-SampleDen, Min(SampleDen, sampleOf(f, c)))
                scaled == IF s < 0 THEN s * 32768 ELSE s * 32767
            IN  writtenFor(f, c) =
                   (IF scaled >= 0 THEN scaled \div SampleDen
                    ELSE -((-scaled) \div SampleDen))

\* a buffer of two channels and two frames or more has been encoded
C13_Witness ==
    /\ wavBlob # NoBlob
    /\ wavBuffer.numberOfChannels = 2
    /\ wavBuffer.length >= 2

\* C14: when the decoded audio has no frames, processAndSplitAudio resolves
\* with no chunks: no chunk buffer is created, no 'chunk i of N' message is
\* sent and the caller sets no error.
C14_EmptyAudioResolvesEmpty ==
    (run.decodedBuffer # NoBuffer /\ run.decodedBuffer.length = 0)
    => /\ run.pc \in {"close", "resolved"}
       /\ run.chunks = <<>>
       /\ run.windows = <<>>
       /\ positionsOf(run.events, "createBuffer") = {}
       /\ run.progress = <<DecodingMessage>>
       /\ splitterError = "null"
       /\ run.pc = "resolved" => (splitChunks = <<>> /\ ~isSplitting)

\* a split of a file that decodes to no frames has resolved
C14_Witness ==
    /\ run.pc = "resolved"
    /\ run.decodedBuffer # NoBuffer
    /\ run.decodedBuffer.length = 0

\* C15: the decoded audio is never written; the buffer of a chunk holds,
\* when the chunk is pushed, for every channel c exactly the samples
\* channels[c][startOffset .. endOffset), and it is what was encoded into
\* the chunk's blob; a chunk that was pushed is not changed by what the
\* invocation does later.
C15_ChunksAreCopies ==
    [][ /\ run.decodedBuffer # NoBuffer
           => run.decodedBuffer' = run.decodedBuffer
        /\ Len(run.chunks') >= Len(run.chunks)
        /\ \A k \in 1..Len(run.chunks) :
             /\ run.chunks'[k] = run.chunks[k]
             /\ run.windows'[k] = run.windows[k]
        /\ Len(run.windows') = Len(run.chunks')
        /\ \A k \in (Len(run.chunks) + 1)..Len(run.chunks') :
             LET w == run.windows'[k]
                 d == run.decodedBuffer'
             IN  /\ w.buffer.numberOfChannels = d.numberOfChannels
                 /\ w.buffer.length = w.endOffset - w.startOffset
                 /\ \A c \in 1..d.numberOfChannels :
                      /\ Len(w.buffer.channelData[c]) = w.buffer.length
                      /\ \A f \in 1..w.buffer.length :
                           w.buffer.channelData[c][f] =
                              d.channelData[c][w.startOffset + f]
                 /\ run.chunks'[k].blob = audioBufferToWav(w.buffer)
      ]_vars

\* two chunks or more were pushed and the invocation went on: the second
\* range does not start at frame 0
C15_Witness ==
    /\ run.pc = "resolved"
    /\ Len(run.chunks) >= 2
    /\ run.windows[2].startOffset > 0
    /\ run.decodedBuffer.numberOfChannels = 2

C17_ByteRanges ==
    (splitCall.pc = "returned" /\ splitCall.chunkSizeInBytes >= 1)
    => LET S  == splitCall.file.size
           n  == splitCall.chunkSizeInBytes
           cs == splitCall.chunks
       IN  IF S <= n
           THEN cs = <<fileItself(splitCall.file)>>
           ELSE /\ Len(cs) = CeilDiv(S, n)
                /\ \A k \in 1..Len(cs) :
                     /\ cs[k].kind = "slice"
                     /\ cs[k].from = (IF k = 1 THEN 0 ELSE cs[k - 1].to)
                     /\ cs[k].to - cs[k].from >= 1
                     /\ cs[k].to - cs[k].from <= n
                     /\ k < Len(cs) => cs[k].to - cs[k].from = n
                /\ cs[Len(cs)].to = S

\* a file was cut into three blobs or more, the last one shorter than the
\* chunk size
C17_Witness ==
    /\ splitCall.pc = "returned"
    /\ splitCall.chunkSizeInBytes >= 2
    /\ Len(splitCall.chunks) >= 3
    /\ LET last == splitCall.chunks[Len(splitCall.chunks)]
       IN  last.to - last.from < splitCall.chunkSizeInBytes

\* C19: splitAudioFile returns, for every file and every integer chunk
\* size, 0 and the negative ones included.
C19_SplitAudioFileReturns == <>(splitCall.pc = "returned")

(***************************************************************************)
(* Properties of one transcription (TranscribeSpec).                       *)
(***************************************************************************)
job == jobs[1]

\* C18: the files are given to transcribeAudio in list order, each one
\* only when every call before it has returned, so that at most one call
\* is in flight; when the call for file k fails no later file is sent,
\* status is ERROR, error is not null and transcription is empty; status
\* is SUCCESS only when the call for every file has returned; and when the
\* invocation is over processingMessage is null.
C18_OneAtATimeAbortOnFailure ==
    /\ Len(job.sent) <= Len(job.selectedFiles)
    /\ \A k \in 1..Len(job.sent) : job.sent[k] = job.selectedFiles[k]
    /\ Cardinality(job.inFlight) <= 1
    /\ Len(job.sent) = Len(job.outcomes) + Cardinality(job.inFlight)
    /\ \A k \in 1..Len(job.outcomes) :
          job.outcomes[k] = "failed"
          => /\ Len(job.sent) = k
             /\ job.inFlight = {}
             /\ status = "ERROR"
             /\ error # "null"
             /\ transcription = <<>>
    /\ status = "SUCCESS"
       => /\ Len(job.outcomes) = Len(job.selectedFiles)
          /\ \A k \in 1..Len(job.outcomes) : job.outcomes[k] = "returned"
    /\ job.pc = "done"
       => /\ status \in {"SUCCESS", "ERROR"}
          /\ processingMessage = NoProcessingMessage

\* of three files the first was transcribed and the call for the second
\* one failed
C18_Witness ==
    /\ job.pc = "done"
    /\ Len(job.selectedFiles) = 3
    /\ job.outcomes = <<"returned", "failed">>

(***************************************************************************)
(* Properties of the App under every interleaving (Spec).                  *)
(***************************************************************************)
\* C20: whenever splitChunks is not empty, a file is held in splitterFile,
\* no split is running (isSplitting is false) and the chunks are the ones
\* a split of that file resolved with.
C20_ChunksBelongToCurrentFile ==
    splitChunks # <<>>
    => /\ splitterFile # NoFile
       /\ ~isSplitting
       /\ \E p \in 1..MaxRuns :
             /\ calls[p].pc = "resolved"
             /\ calls[p].file = splitterFile
             /\ calls[p].chunks = splitChunks

(***************************************************************************)
(* Properties of the transcriber under every interleaving                  *)
(* (TranscriberSpec).                                                      *)
(***************************************************************************)
\* C21: while status is IDLE (after a reset, until a transcription is
\* started) transcription is empty and error and processingMessage are
\* null, whatever an invocation that was in flight does later; and status
\* becomes SUCCESS or ERROR only from PROCESSING.
C21_ResetIsNotUndone ==
    [][ /\ status' = "IDLE"
           => /\ transcription' = <<>>
              /\ error' = "null"
              /\ processingMessage' = NoProcessingMessage
        /\ (status' \in {"SUCCESS", "ERROR"} /\ status' # status)
           => status = "PROCESSING"
      ]_vars

(***************************************************************************)
(* Properties of the file list (FilesSpec).                                *)
(***************************************************************************)
\* C22: no two files of selectedFiles have the same name, whatever was
\* added, removed and cleared; and an add leaves the files that were in
\* the list where they were: the old list is the start of the new one.
C22_UniqueNamesStableOrder ==
    /\ [](\A a, b \in 1..Len(selectedFiles) :
             a # b => selectedFiles[a].name # selectedFiles[b].name)
    /\ [][ Len(selectedFiles') >= Len(selectedFiles)
           => SubSeq(selectedFiles', 1, Len(selectedFiles)) = selectedFiles
         ]_vars

=============================================================================
